---- MODULE Spec2Model ----
(***************************************************************************)
(* Rendering pipeline of the ray tracer: hit selection, world              *)
(* intersection, shadow test, Phong lighting, recursive reflection and     *)
(* the camera's render loop.                                               *)
(*                                                                         *)
(* Geometry is restricted to the world y axis: every point is (0, y, 0),   *)
(* every direction is (0, +-1, 0), every shape transformation is a         *)
(* translation along y.  On that axis all the source's floating point      *)
(* formulas are exact, so they are evaluated here over the integers.       *)
(* Lengths are counted in multiples of EPSILON; the source's length 1.0    *)
(* is Unit of them.  Directions and normals are pure numbers (+-1).        *)
(* A Color is one channel (the source treats its three channels alike).    *)
(***************************************************************************)
EXTENDS Integers, Sequences, FiniteSets, TLC

\* ---- bounds of the model -------------------------------------------------
Unit == 4          \* EPSILONs per length 1.0
MaxShapes == 2     \* shapes in a world
MaxLen == 3        \* length of a free intersection list given to hit
MaxT == 2          \* |t| of the intersections of a free list
MaxH == 2          \* camera hsize
MaxV == 2          \* camera vsize
MaxStack == 8      \* frames the call stack of the machine holds

MaxWorkers == 2    \* pixels in flight at once in an unordered render

MaxOver == 3       \* how far a color component goes below 0.0 and above 1.0

MaxW == 7          \* canvas width of the serialized canvases
MaxRows == 2       \* canvas height of the serialized canvases
MaxWrites == 1     \* write_pixel calls on a canvas

MaxCanvasWrites == 2   \* write_pixel calls on a new canvas

MaxDim == 3        \* rows and columns of a matrix

MaxEqDim == 2      \* rows and columns of the matrices compared

MaxCoord == 2      \* largest coordinate of a ray's origin

Steps == 2         \* pattern-space coordinate steps per EPSILON

MaxSide == 3       \* width and height of the canvas a projectile is drawn on

\* ---- constants of the program -------------------------------------------
EPSILON == 1
MAX_REFLECTION_DEPTH == 5

VARIABLES world, camera, image, writes, px, py, pc, stack, casts, calls, inp, out,
          workers, file

vars == <<world, camera, image, writes, px, py, pc, stack, casts, calls, inp, out,
          workers, file>>

\* ---- numbers -------------------------------------------------------------
Abs(x) == IF x < 0 THEN -x ELSE x

\* f64 division, used only where it is exact
Div(a, b) == IF b < 0 THEN (-a) \div (-b) ELSE a \div b

\* f64::sqrt, used only on perfect squares
Sqrt(n) == CHOOSE r \in 0..n : r * r = n

RECURSIVE powf(_, _)
powf(base, e) == IF e = 0 THEN 1 ELSE base * powf(base, e - 1)

\* ---- color.rs ------------------------------------------------------------
black == 0

ColorAdd(a, b) == a + b

ColorMulScalar(c, s) == c * s

ColorMul(a, b) == a * b

\* ---- tuples.rs (y component) --------------------------------------------
magnitude(v) == Sqrt(v * v)

normalize(v) == Div(v, magnitude(v))

dot(a, b) == a * b

reflect(v, normal) == v - (normal * 2) * dot(v, normal)

\* ---- transformation.rs / matrices.rs: translations along y ---------------
translation(y) == [ty |-> y]

inverse(m) == [ty |-> -m.ty]

MulPoint(m, p) == p + m.ty

MulVector(m, v) == v

\* ---- rays.rs -------------------------------------------------------------
Ray(origin, direction) == [origin |-> origin, direction |-> direction]

position(r, t) == r.origin + r.direction * t

transform(r, m) == Ray(MulPoint(m, r.origin), MulVector(m, r.direction))

\* ---- intersection.rs -----------------------------------------------------
\* object is the index of the shape in world.objects (the &dyn Shape)
Intersection(t, object) == [t |-> t, object |-> object]

\* Option<Intersection>: <<>> is None, <<i>> is Some(i)
None == <<>>

Some(i) == <<i>>

cmp_min_by_last(v1, v2) == IF v1.t >= v2.t THEN v2 ELSE v1

\* Iterator::min_by: keep the earlier element unless it compares Greater
cmp_min_by(v1, v2) == IF v1.t > v2.t THEN v2 ELSE v1

\* the fold of min_by over s[k..], acc the least element so far
RECURSIVE min_by_fold(_, _, _)
min_by_fold(s, k, acc) ==
    IF k > Len(s) THEN acc
    ELSE min_by_fold(s, k + 1, cmp_min_by(acc, s[k]))

min_by(s) == IF Len(s) = 0 THEN None ELSE Some(min_by_fold(s, 2, s[1]))

non_negative_strict(int) == int.t > 0

non_negative_all(int) == TRUE

non_negative(int) == int.t >= 0

hit(intersections) == min_by(SelectSeq(intersections, non_negative))

\* ---- shapes.rs, shapes/plane.rs, shapes/sphere.rs ------------------------
plane_local_intersect(self, local_ray) ==
    IF Abs(local_ray.direction) * Unit < EPSILON THEN <<>>
    ELSE <<Intersection(Div(-local_ray.origin, local_ray.direction), self)>>

sphere_local_intersect(self, local_ray) ==
    LET sphere_to_ray == local_ray.origin - 0
        a == dot(local_ray.direction, local_ray.direction)
        b == 2 * dot(local_ray.direction, sphere_to_ray)
        c == dot(sphere_to_ray, sphere_to_ray) - Unit * Unit
        discriminant == b * b - 4 * a * c
    IN  IF discriminant < 0 THEN <<>>
        ELSE <<Intersection(Div(-b - Sqrt(discriminant), 2 * a), self),
               Intersection(Div(-b + Sqrt(discriminant), 2 * a), self)>>

local_intersect(shape, self, local_ray) ==
    IF shape.kind = "plane" THEN plane_local_intersect(self, local_ray)
    ELSE sphere_local_intersect(self, local_ray)

shape_intersect(shape, self, ray) ==
    local_intersect(shape, self, transform(ray, inverse(shape.transformation)))

local_normal_at(shape, local_point) ==
    IF shape.kind = "plane" THEN 1 ELSE local_point

\* the transposed inverse of a translation leaves x, y, z of a vector alone
normal_at(shape, point) ==
    LET local_point == MulPoint(inverse(shape.transformation), point)
        local_normal == local_normal_at(shape, local_point)
        world_normal == MulVector(inverse(shape.transformation), local_normal)
    IN  normalize(world_normal)

\* ---- world.rs: intersect -------------------------------------------------
RECURSIVE concat_intersections(_, _, _)
concat_intersections(objects, k, r) ==
    IF k > Len(objects) THEN <<>>
    ELSE shape_intersect(objects[k], k, r) \o concat_intersections(objects, k + 1, r)

sort_before_descending(a, b) == a.t > b.t

\* the comparator of the sort: a.t.partial_cmp(&b.t) is Less
sort_before(a, b) == a.t < b.t

\* the place slice::sort_by, a stable sort, gives to xs[k]: behind every
\* element that compares Less and behind the earlier elements that compare Equal
sort_place(xs, k) ==
    Cardinality({j \in 1..Len(xs) :
        \/ sort_before(xs[j], xs[k])
        \/ (~sort_before(xs[k], xs[j]) /\ j < k)}) + 1

sort_by(xs) ==
    [p \in 1..Len(xs) |-> xs[CHOOSE k \in 1..Len(xs) : sort_place(xs, k) = p]]

intersect(w, r) == sort_by(concat_intersections(w.objects, 1, r))

\* ---- world.rs: is_shadowed ----------------------------------------------
shadow_test_le(h, distance) == IF h = None THEN FALSE ELSE h[1].t <= distance

shadow_test(h, distance) == IF h = None THEN FALSE ELSE h[1].t < distance

\* the ray is_shadowed casts from point toward the light
shadow_ray(w, point) == Ray(point, normalize(w.light.position - point))

shadow_distance(w, point) == magnitude(w.light.position - point)

is_shadowed(w, point) ==
    shadow_test(hit(intersect(w, shadow_ray(w, point))), shadow_distance(w, point))

\* ---- patterns.rs, patterns/solid.rs --------------------------------------
pattern_at(pattern, point) == pattern.color

at_object(pattern, object, world_point) ==
    LET object_point == MulPoint(inverse(object.transformation), world_point)
        pattern_point == MulPoint(inverse(pattern.transformation), object_point)
    IN  pattern_at(pattern, pattern_point)

\* ---- materials.rs --------------------------------------------------------
unlit_ignoring_shadow(light_dot_normal, in_shadow) == light_dot_normal < 0

\* the condition under which diffuse and specular are black
unlit(light_dot_normal, in_shadow) == light_dot_normal < 0 \/ in_shadow

lighting(self, light, point, eyev, normalv, in_shadow, object) ==
    LET color == at_object(self.pattern, object, point)
        effective_color == ColorMul(color, light.intensity)
        lightv == normalize(light.position - point)
        ambient == ColorMulScalar(effective_color, self.ambient)
        light_dot_normal == dot(lightv, normalv)
        reflectv == -reflect(lightv, normalv)
        reflect_dot_eye == dot(reflectv, eyev)
        dark == unlit(light_dot_normal, in_shadow)
        diffuse == IF dark THEN black
                   ELSE ColorMulScalar(ColorMulScalar(effective_color, self.diffuse),
                                       light_dot_normal)
        specular == IF dark \/ reflect_dot_eye <= 0 THEN black
                    ELSE ColorMulScalar(ColorMulScalar(light.intensity, self.specular),
                                        powf(reflect_dot_eye, self.shininess))
    IN  ColorAdd(ColorAdd(ambient, diffuse), specular)

\* ---- intersection.rs: prepare_computations ------------------------------
prepare_computations_keeps_normal(w, self, ray) ==
    LET point == position(ray, self.t)
        eyev == -ray.direction
        n0 == normal_at(w.objects[self.object], point)
        inside == dot(n0, eyev) < 0
    IN  [t |-> self.t, object |-> self.object, point |-> point, eyev |-> eyev,
         normalv |-> n0, reflectv |-> reflect(ray.direction, n0),
         inside |-> inside, over_point |-> point + n0 * EPSILON]

prepare_computations(w, self, ray) ==
    LET point == position(ray, self.t)
        eyev == -ray.direction
        n0 == normal_at(w.objects[self.object], point)
        inside == dot(n0, eyev) < 0
        normalv == IF inside THEN -n0 ELSE n0
    IN  [t |-> self.t, object |-> self.object, point |-> point, eyev |-> eyev,
         normalv |-> normalv, reflectv |-> reflect(ray.direction, normalv),
         inside |-> inside, over_point |-> point + normalv * EPSILON]

\* ---- world.rs: shade_hit, reflected_color, color_at ----------------------
material(w, comps) == w.objects[comps.object].material

surface_color(w, comps) ==
    lighting(material(w, comps), w.light, comps.point, comps.eyev, comps.normalv,
             is_shadowed(w, comps.over_point), w.objects[comps.object])

reflection_stops_below_floor(w, comps, remaining) ==
    remaining < 0 \/ material(w, comps).reflective = 0

\* the early return of reflected_color
reflection_stops(w, comps, remaining) ==
    remaining <= 0 \/ material(w, comps).reflective = 0

reflect_ray_from_point(comps) == Ray(comps.point, comps.reflectv)

\* the ray reflected_color casts
reflect_ray(comps) == Ray(comps.over_point, comps.reflectv)

reflected_depth_same(remaining) == remaining

\* the depth reflected_color hands to color_at
reflected_depth(remaining) == remaining - 1

RECURSIVE color_at(_, _, _)
reflected_color(w, comps, remaining) ==
    IF reflection_stops(w, comps, remaining) THEN black
    ELSE ColorMulScalar(color_at(w, reflect_ray(comps), reflected_depth(remaining)),
                        material(w, comps).reflective)

shade_hit(w, comps, remaining) ==
    ColorAdd(surface_color(w, comps), reflected_color(w, comps, remaining))

color_at(w, r, remaining) ==
    LET h == hit(intersect(w, r))
    IN  IF h = None THEN black
        ELSE shade_hit(w, prepare_computations(w, h[1], r), remaining)

\* ---- canvas.rs ------------------------------------------------------------
Canvas(width, height) ==
    [width |-> width, height |-> height,
     color_grid |-> [y \in 1..height |-> [x \in 1..width |-> black]]]

write_pixel_column_first(self, x, y, color) ==
    [self EXCEPT !.color_grid[x + 1][y + 1] = color]

\* self.color_grid[y][x] = color, x and y counted from 0
write_pixel(self, x, y, color) ==
    [self EXCEPT !.color_grid[y + 1][x + 1] = color]

pixel_at(self, x, y) == self.color_grid[y + 1][x + 1]

\* ---- camera.rs -----------------------------------------------------------
\* Offsets are counted in half pixels (pixel_size = 2), which makes
\* half_width = hsize and half_height = vsize.  The camera transform is a
\* translation along y and a tilt about x; of the pixel's direction the model
\* keeps the y component 2 * world_y + tilt (tilt is odd, so never level).
pixel_size == 2 * 1

Camera(hsize, vsize, ty, tilt) ==
    [hsize |-> hsize, vsize |-> vsize, transform |-> [ty |-> ty, tilt |-> tilt],
     half_width |-> hsize, half_height |-> vsize]

ray_for_pixel(self, x, y) ==
    LET x_offset == ((2 * x + 1) * pixel_size) \div 2
        y_offset == ((2 * y + 1) * pixel_size) \div 2
        world_x == self.half_width - x_offset
        world_y == self.half_height - y_offset
        origin == MulPoint(inverse(self.transform), 0)
        pixel_minus_origin == 2 * world_y + self.transform.tilt
    IN  Ray(origin, normalize(pixel_minus_origin))

\* the depth render hands to color_at
render_depth == MAX_REFLECTION_DEPTH

next_pixel_column_major(self, x, y) ==
    IF y + 1 < self.vsize THEN <<x, y + 1>> ELSE <<x + 1, 0>>

\* for y in 0..vsize { for x in 0..hsize { .. } }: the pixel after (x, y)
next_pixel(self, x, y) ==
    IF x + 1 < self.hsize THEN <<x + 1, y>> ELSE <<0, y + 1>>

\* ---- scenes the model draws its inputs from -----------------------------
Solid(color) == [kind |-> "solid", color |-> color, transformation |-> translation(0)]

\* Material::new with integer coefficients; reflective is 0 or 1
Material(reflective, color) ==
    [ambient |-> 1, diffuse |-> 2, specular |-> 4, shininess |-> 2,
     reflective |-> reflective, pattern |-> Solid(color)]

Shapes(positions) ==
    {[kind |-> k, transformation |-> translation(p), material |-> Material(rf, 1)] :
        k \in {"plane", "sphere"}, p \in positions, rf \in {0, 1}}

SeqsUpTo(S, n) == UNION {[1..k -> S] : k \in 0..n}

PointLight(p, intensity) == [position |-> p, intensity |-> intensity]

\* lights of rendered scenes: never on a surface nor on an over_point
Lights == {PointLight(p, 1) : p \in {Unit \div 2, -(Unit + Unit \div 2)}}

Worlds(positions, lights) ==
    {[objects |-> os, light |-> l] :
        os \in SeqsUpTo(Shapes(positions), MaxShapes), l \in lights}

Scenes == Worlds({-Unit, 0, Unit}, Lights)

\* rendered scenes: shapes above and below the camera
RenderScenes == Worlds({-Unit, Unit}, Lights)

NoWorld == [objects |-> <<>>, light |-> PointLight(0, black)]

NoCamera == Camera(0, 0, 0, 1)

Cameras == {Camera(h, v, 0, tilt) : h \in 1..MaxH, v \in 1..MaxV, tilt \in {-1, 1}}

\* the activation record of one color_at call
Frame(ray, remaining) ==
    [ray |-> ray, remaining |-> remaining, stage |-> "color_at", xs |-> <<>>,
     comps |-> None, shadow_xs |-> <<>>, surface |-> black, value |-> black]

top == stack[Len(stack)]

\* the stack with its top frame replaced
SetTop(frame) == SubSeq(stack, 1, Len(stack) - 1) \o <<frame>>

top_comps == top.comps[1]

\* shade_hit: the surface color, from the shadow intersections of the top frame
top_surface ==
    lighting(material(world, top_comps), world.light, top_comps.point,
             top_comps.eyev, top_comps.normalv,
             shadow_test(hit(top.shadow_xs), shadow_distance(world, top_comps.over_point)),
             world.objects[top_comps.object])

\* ---- world.rs: one color_at call, step by step ---------------------------
\* color_at calls self.intersect(r): every shape's intersections are collected
ColorAtIntersect ==
    /\ pc = "color_at" /\ top.stage = "color_at"
    /\ stack' = SetTop([top EXCEPT !.stage = "sort",
                                   !.xs = concat_intersections(world.objects, 1, top.ray)])
    /\ world' = world
    /\ UNCHANGED <<camera, image, writes, px, py, pc, casts, calls, inp, out, workers, file>>

\* self.intersect(r) sorts what it collected and returns it to color_at
ColorAtSort ==
    /\ pc = "color_at" /\ top.stage = "sort"
    /\ stack' = SetTop([top EXCEPT !.stage = "hit", !.xs = sort_by(top.xs)])
    /\ world' = world
    /\ UNCHANGED <<camera, image, writes, px, py, pc, casts, calls, inp, out, workers, file>>

\* color_at: hit(intersections) is None, return black
ColorAtMiss ==
    /\ pc = "color_at" /\ top.stage = "hit"
    /\ hit(top.xs) = None
    /\ stack' = SetTop([top EXCEPT !.stage = "ret", !.value = black])
    /\ world' = world
    /\ UNCHANGED <<camera, image, writes, px, py, pc, casts, calls, inp, out, workers, file>>

\* color_at: hit(intersections) is Some, prepare_computations and call shade_hit
ColorAtPrepare ==
    /\ pc = "color_at" /\ top.stage = "hit"
    /\ hit(top.xs) # None
    /\ stack' = SetTop([top EXCEPT
                    !.stage = "shade_hit",
                    !.comps = Some(prepare_computations(world, hit(top.xs)[1], top.ray))])
    /\ world' = world
    /\ UNCHANGED <<camera, image, writes, px, py, pc, casts, calls, inp, out, workers, file>>

\* shade_hit calls is_shadowed(over_point), which calls self.intersect with
\* the shadow ray: every shape's intersections are collected
ShadowIntersect ==
    /\ pc = "color_at" /\ top.stage = "shade_hit"
    /\ stack' = SetTop([top EXCEPT
                    !.stage = "shadow_sort",
                    !.shadow_xs = concat_intersections(world.objects, 1,
                                     shadow_ray(world, top_comps.over_point))])
    /\ world' = world
    /\ UNCHANGED <<camera, image, writes, px, py, pc, casts, calls, inp, out, workers, file>>

\* self.intersect sorts what it collected and returns it to is_shadowed
ShadowSort ==
    /\ pc = "color_at" /\ top.stage = "shadow_sort"
    /\ stack' = SetTop([top EXCEPT !.stage = "reflected_color",
                                   !.shadow_xs = sort_by(top.shadow_xs)])
    /\ world' = world
    /\ UNCHANGED <<camera, image, writes, px, py, pc, casts, calls, inp, out, workers, file>>

\* shade_hit: lighting gives the surface color; reflected_color returns
\* black at once; color_at returns surface + black
ReflectedColorStops ==
    /\ pc = "color_at" /\ top.stage = "reflected_color"
    /\ reflection_stops(world, top_comps, top.remaining)
    /\ stack' = SetTop([top EXCEPT !.stage = "ret", !.surface = top_surface,
                                   !.value = ColorAdd(top_surface, black)])
    /\ world' = world
    /\ UNCHANGED <<camera, image, writes, px, py, pc, casts, calls, inp, out, workers, file>>

\* the world with the material of shape k made non-reflective
Dull(w, k) == [w EXCEPT !.objects[k].material.reflective = 0]

ReflectedColorCastsDulling ==
    /\ pc = "color_at" /\ top.stage = "reflected_color"
    /\ ~reflection_stops(world, top_comps, top.remaining)
    /\ Len(stack) < MaxStack
    /\ stack' = SetTop([top EXCEPT !.stage = "wait", !.surface = top_surface])
                \o <<Frame(reflect_ray(top_comps), reflected_depth(top.remaining))>>
    /\ casts' = casts + 1
    /\ calls' = calls + 1
    /\ world' = Dull(world, top_comps.object)
    /\ UNCHANGED <<camera, image, writes, px, py, pc, inp, out, workers, file>>

\* shade_hit: lighting gives the surface color; reflected_color casts the
\* reflection ray and calls color_at
ReflectedColorCasts ==
    /\ pc = "color_at" /\ top.stage = "reflected_color"
    /\ ~reflection_stops(world, top_comps, top.remaining)
    /\ Len(stack) < MaxStack
    /\ stack' = SetTop([top EXCEPT !.stage = "wait", !.surface = top_surface])
                \o <<Frame(reflect_ray(top_comps), reflected_depth(top.remaining))>>
    /\ casts' = casts + 1
    /\ calls' = calls + 1
    /\ world' = world
    /\ UNCHANGED <<camera, image, writes, px, py, pc, inp, out, workers, file>>

\* the recursive color_at returns into reflected_color, shade_hit and color_at
ReflectedReturn ==
    /\ pc = "color_at" /\ Len(stack) >= 2 /\ top.stage = "ret"
    /\ LET caller == stack[Len(stack) - 1]
           color == top.value
           reflected == ColorMulScalar(color, material(world, caller.comps[1]).reflective)
       IN  stack' = SubSeq(stack, 1, Len(stack) - 2)
                    \o <<[caller EXCEPT !.stage = "ret",
                                        !.value = ColorAdd(caller.surface, reflected)]>>
    /\ world' = world
    /\ UNCHANGED <<camera, image, writes, px, py, pc, casts, calls, inp, out, workers, file>>

\* the outermost color_at returns to a caller that is not render
ColorAtDone ==
    /\ pc = "color_at" /\ Len(stack) = 1 /\ top.stage = "ret"
    /\ camera = NoCamera
    /\ out' = top.value
    /\ pc' = "done"
    /\ world' = world
    /\ UNCHANGED <<camera, image, writes, px, py, stack, casts, calls, inp, workers, file>>

\* ---- camera.rs: render ---------------------------------------------------
\* loop body, first half: ray_for_pixel and the call of color_at
RenderRay ==
    /\ pc = "render" /\ py < camera.vsize /\ px < camera.hsize
    /\ stack' = <<Frame(ray_for_pixel(camera, px, py), render_depth)>>
    /\ calls' = 1
    /\ casts' = 0
    /\ pc' = "color_at"
    /\ world' = world
    /\ UNCHANGED <<camera, image, writes, px, py, inp, out, workers, file>>

\* loop body, second half: write_pixel, then the loop counters advance
RenderWritePixel ==
    /\ pc = "color_at" /\ Len(stack) = 1 /\ top.stage = "ret"
    /\ camera # NoCamera
    /\ image' = write_pixel(image, px, py, top.value)
    /\ writes' = Append(writes, <<px, py>>)
    /\ px' = next_pixel(camera, px, py)[1]
    /\ py' = next_pixel(camera, px, py)[2]
    /\ stack' = <<>>
    /\ pc' = "render"
    /\ world' = world
    /\ UNCHANGED <<camera, casts, calls, inp, out, workers, file>>

\* both loops are exhausted: render returns the image
RenderReturn ==
    /\ pc = "render" /\ ~(py < camera.vsize)
    /\ pc' = "done"
    /\ world' = world
    /\ UNCHANGED <<camera, image, writes, px, py, stack, casts, calls, inp, out, workers, file>>

NoInput == [kind |-> "none"]

Init ==
    /\ world \in RenderScenes
    /\ camera \in Cameras
    /\ image = Canvas(camera.hsize, camera.vsize)
    /\ writes = <<>>
    /\ px = 0 /\ py = 0
    /\ pc = "render"
    /\ stack = <<>>
    /\ casts = 0 /\ calls = 0
    /\ inp = NoInput /\ out = black
    /\ workers = {} /\ file = None

Next ==
    \/ RenderRay
    \/ ColorAtIntersect
    \/ ColorAtSort
    \/ ColorAtMiss
    \/ ColorAtPrepare
    \/ ShadowIntersect
    \/ ShadowSort
    \/ ReflectedColorStops
    \/ ReflectedColorCasts
    \/ ReflectedReturn
    \/ RenderWritePixel
    \/ RenderReturn

Spec == Init /\ [][Next]_vars

\* ---- one color_at call from any ray and depth ----------------------------
Rays == {Ray(o, d) : o \in {-(Unit \div 2) - Unit, 0, Unit}, d \in {-1, 1}}

\* a caller about to call color_at on a world of scenes with a ray of rays
CallsColorAt(scenes, rays) ==
    /\ world \in scenes
    /\ camera = NoCamera
    /\ image = Canvas(0, 0)
    /\ writes = <<>>
    /\ px = 0 /\ py = 0
    /\ pc = "color_at"
    /\ \E r \in rays, d \in 0..MAX_REFLECTION_DEPTH :
          /\ stack = <<Frame(r, d)>>
          /\ inp = [kind |-> "color_at", r |-> r, remaining |-> d]
    /\ casts = 0 /\ calls = 1
    /\ out = black
    /\ workers = {} /\ file = None

InitColorAt == CallsColorAt(Scenes, Rays)

NextColorAt ==
    \/ ColorAtIntersect
    \/ ColorAtSort
    \/ ColorAtMiss
    \/ ColorAtPrepare
    \/ ShadowIntersect
    \/ ShadowSort
    \/ ReflectedColorStops
    \/ ReflectedColorCasts
    \/ ReflectedReturn
    \/ ColorAtDone

SpecColorAt == InitColorAt /\ [][NextColorAt]_vars

\* shapes on both sides of a ray that starts between them
FacingScenes == Worlds({-Unit, Unit}, {PointLight(Unit \div 2, 1)})

InitFacing == CallsColorAt(FacingScenes, {Ray(0, -1), Ray(0, 1)})

\* a call that can take a step takes one: the caller's thread keeps running
FairSpecColorAt == InitFacing /\ [][NextColorAt]_vars /\ WF_vars(NextColorAt)

\* ---- single calls of the pure operations ---------------------------------
Intersections == {Intersection(t, o) : t \in -MaxT..MaxT, o \in 1..MaxShapes}

\* lights of the shadow test: between, on and outside the surfaces
ShadowLights == {PointLight(p, 1) : p \in {Unit \div 2, Unit, -(Unit + Unit \div 2)}}

ShadowPoints == {-(2 * Unit) - 1, -1, 0, 1, Unit + 1, 3 * Unit}

LitMaterials ==
    {[ambient |-> a, diffuse |-> d, specular |-> sp, shininess |-> sh,
      reflective |-> 0, pattern |-> Solid(c)] :
        a \in {0, 1}, d \in {0, 2}, sp \in {0, 4}, sh \in {1, 2}, c \in {1, 2}}

LightingInputs ==
    {[kind |-> "lighting", material |-> m, light |-> PointLight(lp, li), point |-> p,
      eyev |-> e, normalv |-> n, in_shadow |-> sh] :
        m \in LitMaterials, lp \in {-Unit, Unit \div 2}, li \in {1, 3}, p \in {0, Unit},
        e \in {-1, 1}, n \in {-1, 1}, sh \in BOOLEAN}

InitPure ==
    /\ camera = NoCamera
    /\ image = Canvas(0, 0)
    /\ writes = <<>>
    /\ px = 0 /\ py = 0
    /\ pc = "call"
    /\ stack = <<>>
    /\ casts = 0 /\ calls = 0
    /\ out = black
    /\ workers = {} /\ file = None
    /\ \/ /\ world = NoWorld
          /\ inp \in {[kind |-> "hit", xs |-> xs] : xs \in SeqsUpTo(Intersections, MaxLen)}
       \/ /\ world \in Scenes
          /\ inp \in {[kind |-> k, r |-> r] : k \in {"intersect", "color_at_hit"}, r \in Rays}
       \/ /\ world \in Worlds({-Unit, 0, Unit}, ShadowLights)
          /\ inp \in {[kind |-> "is_shadowed", point |-> p] : p \in ShadowPoints}
          /\ inp.point # world.light.position
       \/ /\ world = NoWorld
          /\ inp \in LightingInputs

CallHit ==
    /\ pc = "call" /\ inp.kind = "hit"
    /\ out' = hit(inp.xs)
    /\ pc' = "done"
    /\ UNCHANGED <<world, camera, image, writes, px, py, stack, casts, calls, inp, workers, file>>

CallIntersect ==
    /\ pc = "call" /\ inp.kind = "intersect"
    /\ out' = intersect(world, inp.r)
    /\ pc' = "done"
    /\ UNCHANGED <<world, camera, image, writes, px, py, stack, casts, calls, inp, workers, file>>

\* the first two statements of color_at
CallColorAtHit ==
    /\ pc = "call" /\ inp.kind = "color_at_hit"
    /\ out' = hit(intersect(world, inp.r))
    /\ pc' = "done"
    /\ UNCHANGED <<world, camera, image, writes, px, py, stack, casts, calls, inp, workers, file>>

CallIsShadowed ==
    /\ pc = "call" /\ inp.kind = "is_shadowed"
    /\ out' = is_shadowed(world, inp.point)
    /\ pc' = "done"
    /\ UNCHANGED <<world, camera, image, writes, px, py, stack, casts, calls, inp, workers, file>>

LitObject(m) == [kind |-> "plane", transformation |-> translation(0), material |-> m]

CallLighting ==
    /\ pc = "call" /\ inp.kind = "lighting"
    /\ out' = lighting(inp.material, inp.light, inp.point, inp.eyev, inp.normalv,
                       inp.in_shadow, LitObject(inp.material))
    /\ pc' = "done"
    /\ UNCHANGED <<world, camera, image, writes, px, py, stack, casts, calls, inp, workers, file>>

NextPure ==
    \/ CallHit
    \/ CallIntersect
    \/ CallColorAtHit
    \/ CallIsShadowed
    \/ CallLighting

SpecPure == InitPure /\ [][NextPure]_vars

\* ---- camera.rs: render as a function, and its loop body in any order ------
\* the loops of render from pixel (x, y) on, writing into img
RECURSIVE render_from(_, _, _, _, _)
render_from(self, w, img, x, y) ==
    IF ~(y < self.vsize /\ x < self.hsize) THEN img
    ELSE LET color == color_at(w, ray_for_pixel(self, x, y), render_depth)
             n == next_pixel(self, x, y)
         IN  render_from(self, w, write_pixel(img, x, y, color), n[1], n[2])

render(self, w) == render_from(self, w, Canvas(self.hsize, self.vsize), 0, 0)

\* two shapes around the camera, the first a mirror below it
OrderScenes ==
    {w \in FacingScenes :
        /\ Len(w.objects) = 2
        /\ w.objects[1].kind = "plane" /\ w.objects[1].material.reflective = 1
        /\ w.objects[1].transformation = translation(-Unit)}

OrderCameras == {Camera(MaxH, MaxV, 0, 1)}

Pixels(self) == {<<x, y>> : x \in 0..(self.hsize - 1), y \in 0..(self.vsize - 1)}

\* pixels no worker has taken yet
Untaken ==
    {p \in Pixels(camera) :
        /\ p \notin inp.written
        /\ \A wk \in workers : <<wk.x, wk.y>> # p}

\* true when some pixel that comes before p in row-major order is not yet written
JumpsAhead(p) ==
    \E q \in Pixels(camera) \ inp.written :
        q[2] < p[2] \/ (q[2] = p[2] /\ q[1] < p[1])

InitAnyOrder ==
    /\ world \in OrderScenes
    /\ camera \in OrderCameras
    /\ image = Canvas(camera.hsize, camera.vsize)
    /\ writes = <<>>
    /\ px = 0 /\ py = 0
    /\ pc = "render"
    /\ stack = <<>>
    /\ casts = 0 /\ calls = 0
    /\ inp = [kind |-> "any_order", written |-> {}, reordered |-> FALSE]
    /\ out = black
    /\ workers = {} /\ file = None

WorkerComputesSharedCounters ==
    /\ pc = "render" /\ Cardinality(workers) < MaxWorkers
    /\ \E p \in Untaken :
          workers' = workers \cup
              {[x |-> p[1], y |-> p[2],
                color |-> color_at(world, ray_for_pixel(camera, px, py), render_depth)]}
    /\ UNCHANGED <<world, camera, image, writes, px, py, pc, stack, casts, calls,
                   inp, out, file>>

\* the loop body up to color_at, run for any pixel not yet taken
WorkerComputes ==
    /\ pc = "render" /\ Cardinality(workers) < MaxWorkers
    /\ \E p \in Untaken :
          workers' = workers \cup
              {[x |-> p[1], y |-> p[2],
                color |-> color_at(world, ray_for_pixel(camera, p[1], p[2]), render_depth)]}
    /\ UNCHANGED <<world, camera, image, writes, px, py, pc, stack, casts, calls,
                   inp, out, file>>

\* the loop body's write_pixel, run by any worker that holds a color
WorkerWrites ==
    /\ pc = "render"
    /\ \E wk \in workers :
          /\ image' = write_pixel(image, wk.x, wk.y, wk.color)
          /\ inp' = [inp EXCEPT !.written = @ \cup {<<wk.x, wk.y>>},
                                !.reordered = @ \/ JumpsAhead(<<wk.x, wk.y>>)]
          /\ workers' = workers \ {wk}
    /\ UNCHANGED <<world, camera, writes, px, py, pc, stack, casts, calls, out, file>>

\* every pixel is written: the image is returned
AnyOrderReturn ==
    /\ pc = "render" /\ Untaken = {} /\ workers = {}
    /\ pc' = "done"
    /\ UNCHANGED <<world, camera, image, writes, px, py, stack, casts, calls,
                   inp, out, workers, file>>

NextAnyOrder ==
    \/ WorkerComputes
    \/ WorkerWrites
    \/ AnyOrderReturn

SpecAnyOrder == InitAnyOrder /\ [][NextAnyOrder]_vars

\* ---- canvas.rs: color components and their quantization -------------------
\* The canvas serializer reads the three components of a color.  A
\* component is counted in quarters of a quantization step: the source's
\* component 1.0 is ComponentOne.
MAX_COLOR_VALUE == 255

ComponentOne == 4 * MAX_COLOR_VALUE

Color(r, g, b) == <<r, g, b>>

\* n / d with the fraction cut off, as a cast from f64 to an integer does
trunc(n, d) == IF n >= 0 THEN n \div d ELSE -((-n) \div d)

\* f64::round of n / d: the nearest integer, halves away from zero
round(n, d) ==
    IF n >= 0 THEN (2 * n + d) \div (2 * d) ELSE -((2 * (-n) + d) \div (2 * d))

\* the cast `as u8` saturates
as_u8(n) == IF n < 0 THEN 0 ELSE IF n > 255 THEN 255 ELSE n

clamp_and_scale_color_value(c) ==
    IF c < 0 THEN 0
    ELSE IF c > ComponentOne THEN MAX_COLOR_VALUE
    ELSE as_u8(round(c * MAX_COLOR_VALUE, ComponentOne))

\* ---- single calls of the canvas, matrix and ray functions ----------------
\* everything but the call's input and output is at rest
\* ---- matrices.rs -------------------------------------------------------------
\* a call returns a value or panics
Returned(v) == [kind |-> "return", value |-> v]

Panicked == [kind |-> "panic"]

\* rows of equal length, at least one row
from_vec(data) == [rows |-> Len(data), cols |-> Len(data[1]), data |-> data]

\* self.data[row][col], row and col counted from 0
at(self, row, col) == self.data[row + 1][col + 1]

\* the condition under which mul panics with its message
mul_guard(self, other) == self.rows # other.cols

\* the sum over n in 0..count of self.at(i, n) * other.at(n, j)
RECURSIVE mul_sum(_, _, _, _, _)
mul_sum(self, other, i, j, count) ==
    IF count = 0 THEN 0
    ELSE mul_sum(self, other, i, j, count - 1)
            + at(self, i, count - 1) * at(other, count - 1, j)

\* every index the loops use is inside both matrices; the inner loop runs
\* over 0..self.rows
mul_in_bounds(self, other) ==
    \A n \in 0..(self.rows - 1) : n < self.cols /\ n < other.rows

\* Matrix * Matrix and Matrix * &Matrix have the same body
mul(self, other) ==
    IF mul_guard(self, other) THEN Panicked
    ELSE IF ~mul_in_bounds(self, other) THEN Panicked
    ELSE Returned(from_vec([i \in 1..self.rows |->
                              [j \in 1..other.cols |->
                                 mul_sum(self, other, i - 1, j - 1, self.rows)]]))

\* the matrix of a shape whose entries count up along its rows
Counting(rows, cols) ==
    from_vec([i \in 1..rows |-> [j \in 1..cols |-> (i - 1) * cols + j]])

AnyShapeMatrices == {Counting(r, c) : r \in 1..MaxDim, c \in 1..MaxDim}

\* ---- matrices.rs: determinant and inverse ------------------------------------
determinant_2x2(self) ==
    at(self, 0, 0) * at(self, 1, 1) - at(self, 0, 1) * at(self, 1, 0)

\* the matrix without row row and column col, both counted from 0
submatrix(self, row, col) ==
    from_vec([i \in 1..(self.rows - 1) |->
                [j \in 1..(self.cols - 1) |->
                   self.data[IF i <= row THEN i ELSE i + 1][IF j <= col THEN j ELSE j + 1]]])

RECURSIVE determinant(_)

minor(self, row, col) == determinant(submatrix(self, row, col))

cofactor(self, row, col) ==
    IF (row + col) % 2 = 0 THEN minor(self, row, col) ELSE -minor(self, row, col)

\* the sum over j in 0..count of self.at(0, j) * self.cofactor(0, j)
RECURSIVE determinant_sum(_, _)
determinant_sum(self, count) ==
    IF count = 0 THEN 0
    ELSE determinant_sum(self, count - 1)
            + at(self, 0, count - 1) * cofactor(self, 0, count - 1)

\* of a square matrix with at least two rows
determinant(self) ==
    IF self.rows = 2 /\ self.cols = 2 THEN determinant_2x2(self)
    ELSE determinant_sum(self, self.cols)

\* the shapes on which determinant panics instead of returning: it is not the
\* 2x2 case, the loop runs, and the submatrix has no rows, so that from_vec
\* indexes data[0] of an empty Vec, or the determinant of the submatrix panics
RECURSIVE determinant_panics(_)
determinant_panics(self) ==
    IF self.rows = 2 /\ self.cols = 2 THEN FALSE
    ELSE /\ self.cols >= 1
         /\ \/ self.rows <= 1
            \/ determinant_panics(submatrix(self, 0, 0))

\* cofactor calls minor, which takes the determinant of a submatrix
cofactor_panics(self) ==
    \/ self.rows <= 1
    \/ determinant_panics(submatrix(self, 0, 0))

is_invertible(self) == determinant(self) # 0

\* a quotient n / d that is not evaluated
Quotient(n, d) == <<n, d>>

inverse_entry_untransposed(self, det, j, i) == Quotient(cofactor(self, j, i), det)

\* the entry pushed at row j, column i of the inverse (both from 0)
inverse_entry(self, det, j, i) == Quotient(cofactor(self, i, j), det)

\* Matrix::inverse
Matrix_inverse(self) ==
    IF determinant_panics(self) THEN Panicked
    ELSE IF ~is_invertible(self) THEN Panicked
    ELSE IF cofactor_panics(self) THEN Panicked
    ELSE LET det == determinant(self)
         IN  Returned([rows |-> self.rows, cols |-> self.cols,
                       data |-> [j \in 1..self.cols |->
                                   [i \in 1..self.rows |->
                                      inverse_entry(self, det, j - 1, i - 1)]]])

\* Matrix::identity
identity ==
    from_vec([i \in 1..4 |-> [j \in 1..4 |-> IF i = j THEN 1 ELSE 0]])

\* a 4x4 transformation: a linear part and a translation column over the
\* last row (0, 0, 0, 1)
Affine(linear, column) ==
    from_vec([i \in 1..4 |-> [j \in 1..4 |->
                IF i = 4 THEN identity.data[i][j]
                ELSE IF j = 4 THEN column[i] ELSE linear[i][j]]])

Entries == {0, 1}

\* ---- rays.rs: Ray::new -----------------------------------------------------
\* a SpatialTuple (x, y, z, w)
SpatialTuple(x, y, z, w) == <<x, y, z, w>>

new_checks_origin_only(origin, direction) == origin[4] # 1

\* the condition under which Ray::new panics
new_rejects(origin, direction) == origin[4] # 1 \/ direction[4] # 0

Ray_new(origin, direction) ==
    IF new_rejects(origin, direction) THEN Panicked
    ELSE Returned(Ray(origin, direction))

SpatialTuples ==
    {SpatialTuple(x, y, 0, w) : x \in {0, 1}, y \in {-1, 1}, w \in (-1)..MaxT}

\* ---- matrices.rs: PartialEq ---------------------------------------------------
\* the entries are counted in EPSILONs
\* the first k entries in row-major order pass the test of the inner loop
RECURSIVE eq_entries(_, _, _)
eq_entries(self, other, k) ==
    IF k = 0 THEN TRUE
    ELSE LET i == (k - 1) \div self.cols
             j == (k - 1) % self.cols
         IN  /\ ~(at(self, i, j) - at(other, i, j) > EPSILON)
             /\ eq_entries(self, other, k - 1)

\* impl PartialEq for Matrix
eq(self, other) ==
    IF self.cols # other.cols \/ self.rows # other.rows THEN FALSE
    ELSE eq_entries(self, other, self.rows * self.cols)

\* differences of two entries: two EPSILONs below, none, one EPSILON above
Deltas == {-2 * EPSILON, 0, EPSILON}



\* ---- tuples.rs -----------------------------------------------------------------
\* Point and Vector are tuple structs of four numbers (x, y, z, w)
Point_new(x, y, z) == <<x, y, z, 1>>

Vector_new(x, y, z) == <<x, y, z, 0>>

\* impl Add for Vector, Add<Point> for Vector, Add<Vector> for Point
add(self, other) ==
    <<self[1] + other[1], self[2] + other[2], self[3] + other[3], self[4] + other[4]>>

sub_keeps_w(self, other) ==
    <<self[1] - other[1], self[2] - other[2], self[3] - other[3], self[4]>>

\* impl Sub for Vector, Sub for Point, Sub<Vector> for Point
sub(self, other) ==
    <<self[1] - other[1], self[2] - other[2], self[3] - other[3], self[4] - other[4]>>

\* impl Neg for Vector
neg(self) == <<-self[1], -self[2], -self[3], -self[4]>>

\* impl Mul<f64> for Vector
Vector_mul(self, scalar) ==
    <<self[1] * scalar, self[2] * scalar, self[3] * scalar, self[4] * scalar>>

\* impl Div<f64> for Vector, for a scalar that is not 0
Vector_div(self, scalar) ==
    <<Div(self[1], scalar), Div(self[2], scalar), Div(self[3], scalar),
      Div(self[4], scalar)>>

\* Vector::cross
cross(self, other) ==
    Vector_new(self[2] * other[3] - self[3] * other[2],
               self[3] * other[1] - self[1] * other[3],
               self[1] * other[2] - self[2] * other[1])

\* coordinates and scalars of the tuples combined
Coordinates == {-1, 0, 2}

Scalars == {-2, 3}

\* ---- shapes: equals --------------------------------------------------------------
\* Matrix == Matrix on two translations: they differ in the translation entry
\* only, where the test is self - other > EPSILON
translation_eq(self, other) == ~(self.ty - other.ty > EPSILON)

\* Solid::equals
Solid_equals(self, other) ==
    IF other.kind = "solid" THEN self.color = other.color ELSE FALSE

\* impl PartialEq for Material
Material_eq(self, other) ==
    /\ self.ambient = other.ambient
    /\ self.diffuse = other.diffuse
    /\ self.specular = other.specular
    /\ self.shininess = other.shininess
    /\ Solid_equals(self.pattern, other.pattern)

\* Sphere::equals and Plane::equals: the downcast succeeds when the other
\* shape is of the same type
Shape_equals(self, other) ==
    IF other.kind = self.kind
    THEN translation_eq(self.transformation, other.transformation)
            /\ Material_eq(self.material, other.material)
    ELSE FALSE

\* Intersection::equals; an intersection refers to its shape by the place of
\* the instance among objects
Intersection_equals(objects, self, other) ==
    self.t = other.t /\ Shape_equals(objects[self.object], objects[other.object])

\* ---- shapes/sphere.rs: local_intersect, with rays in space -------------------
\* Vector::dot
Vector_dot(self, other) ==
    self[1] * other[1] + self[2] * other[2] + self[3] * other[3] + self[4] * other[4]

\* f64::sqrt, rounded down to a whole number
sqrt(n) == CHOOSE r \in 0..n : r * r <= n /\ n < (r + 1) * (r + 1)

intersections_merged_at_tangent(self, a, b, discriminant) ==
    IF discriminant = 0 THEN <<Intersection(Quotient(-b, 2 * a), self)>>
    ELSE <<Intersection(Quotient(-b - sqrt(discriminant), 2 * a), self),
           Intersection(Quotient(-b + sqrt(discriminant), 2 * a), self)>>

\* vec![Intersection::new(t1, &self), Intersection::new(t2, &self)]
intersections_at_roots(self, a, b, discriminant) ==
    <<Intersection(Quotient(-b - sqrt(discriminant), 2 * a), self),
      Intersection(Quotient(-b + sqrt(discriminant), 2 * a), self)>>

\* Sphere::local_intersect; self is the handle of the sphere
Sphere_local_intersect(self, local_ray) ==
    LET sphere_to_ray == sub(local_ray.origin, Point_new(0, 0, 0))
        a == Vector_dot(local_ray.direction, local_ray.direction)
        b == 2 * Vector_dot(local_ray.direction, sphere_to_ray)
        c == Vector_dot(sphere_to_ray, sphere_to_ray) - 1
        discriminant == b * b - 4 * a * c
    IN  IF discriminant < 0 THEN <<>>
        ELSE intersections_at_roots(self, a, b, discriminant)

\* ---- utils.rs, patterns/checker.rs, patterns/stripe.rs ---------------------
\* Pattern-space coordinates are counted in steps, Steps of them per EPSILON,
\* so that a coordinate can lie strictly between 0 and EPSILON; the length
\* 1.0 is One steps.  A pattern transformation is a translation, kept as its
\* column; its inverse times a point is the point minus that column.
One == Unit * Steps * EPSILON

zero_if_trivial_never(n) == n

zero_if_trivial(n) == IF Abs(n) < EPSILON * Steps THEN 0 ELSE n

\* f64::floor of a coordinate, as a whole number
floor(n) == n \div One

\* the % of i32 and of f64: the remainder has the sign of the dividend
rem(n, d) == IF n < 0 THEN -((-n) % d) ELSE n % d

pattern_translation(x, y, z) == Vector_new(x, y, z)

set_transformation(self, m) == [self EXCEPT !.transformation = m]

\* self.a.transformation().inverse() * point
inverse_mul_point(m, point) == sub(point, m)

Stripe(a, b) ==
    [kind |-> "stripe", a |-> a, b |-> b, transformation |-> pattern_translation(0, 0, 0)]

Checker(a, b) ==
    [kind |-> "checker", a |-> a, b |-> b, transformation |-> pattern_translation(0, 0, 0)]

Solid_at(self, point) == self.color

Stripe_at(self, point) ==
    IF rem(floor(point[1]), 2) = 0
    THEN Solid_at(self.a, inverse_mul_point(self.a.transformation, point))
    ELSE Solid_at(self.b, inverse_mul_point(self.b.transformation, point))

\* self.a.at(..) on a Box<dyn Pattern>
Pattern_at(self, point) ==
    IF self.kind = "solid" THEN Solid_at(self, point) ELSE Stripe_at(self, point)

Checker_at(self, point) ==
    LET x == zero_if_trivial(point[1])
        y == zero_if_trivial(point[2])
        z == zero_if_trivial(point[3])
    IN  IF rem(floor(x) + floor(y) + floor(z), 2) = 0
        THEN Pattern_at(self.a, inverse_mul_point(self.a.transformation, point))
        ELSE Pattern_at(self.b, inverse_mul_point(self.b.transformation, point))

\* the children of the checkers sampled: solid colors and moved stripes
CheckerChildren ==
    {Solid(c) : c \in {black, 1}}
    \cup {set_transformation(Stripe(Solid(1), Solid(black)), pattern_translation(t, 0, 0)) :
            t \in {0, One}}

\* coordinates around 0, around EPSILON and around the whole numbers
CheckerCoordinates ==
    {-One - 1, -One, -(EPSILON * Steps), -1, 0, 1, EPSILON * Steps, One - 1, One, 2 * One}

AtRest ==
    /\ world = NoWorld
    /\ camera = NoCamera
    /\ image = Canvas(0, 0)
    /\ writes = <<>>
    /\ px = 0 /\ py = 0
    /\ stack = <<>>
    /\ casts = 0 /\ calls = 0
    /\ workers = {} /\ file = None

Components == (-MaxOver)..(ComponentOne + MaxOver)

InitCalls ==
    /\ AtRest
    /\ pc = "call"
    /\ out = black
    /\ \/ inp \in {[kind |-> "clamp", c |-> c] : c \in Components}
       \/ inp \in {[kind |-> "mul", a |-> a, b |-> b] :
                       a \in AnyShapeMatrices, b \in AnyShapeMatrices}
       \/ inp \in {[kind |-> "ray_new", origin |-> o, direction |-> d] :
                       o \in SpatialTuples, d \in SpatialTuples}
       \/ \E k \in {"is_invertible", "inverse"}, n \in 2..MaxDim :
             \E data \in [1..n -> [1..n -> Entries]] :
                inp = [kind |-> k, m |-> from_vec(data)]
       \/ \E r \in 1..MaxEqDim, c \in 1..MaxEqDim :
             \/ \E delta \in [1..r -> [1..c -> Deltas]] :
                   inp = [kind |-> "eq", a |-> Counting(r, c),
                          b |-> from_vec([i \in 1..r |-> [j \in 1..c |->
                                   Counting(r, c).data[i][j] + delta[i][j]]])]
             \/ \E r2 \in 1..MaxEqDim, c2 \in 1..MaxEqDim :
                   /\ <<r2, c2>> # <<r, c>>
                   /\ inp = [kind |-> "eq", a |-> Counting(r, c), b |-> Counting(r2, c2)]
       \/ \E a \in {identity, Counting(4, 4)} :
             \E linear \in [1..3 -> [1..3 -> Entries]], column \in [1..3 -> {-1, 2}] :
                inp = [kind |-> "product_inverse", a |-> a, b |-> Affine(linear, column)]
       \/ \E p \in Coordinates \X Coordinates \X Coordinates,
             q \in Coordinates \X Coordinates \X Coordinates, s \in Scalars :
             inp = [kind |-> "tuple_ops", p |-> p, q |-> q, scalar |-> s]
       \/ \E s1 \in Shapes({-Unit, Unit}), s2 \in Shapes({-Unit, Unit}), t \in 0..1 :
             inp = [kind |-> "equals", objects |-> <<s1, s2>>, t1 |-> 1, t2 |-> t]
       \/ \E o \in ((-MaxCoord)..MaxCoord) \X ((-MaxCoord)..MaxCoord) \X ((-MaxCoord)..MaxCoord),
             d \in ((-1)..1) \X ((-1)..1) \X ((-1)..1), s \in 1..2 :
             /\ d # <<0, 0, 0>>
             /\ inp = [kind |-> "sphere_local_intersect", self |-> s,
                       local_ray |-> Ray(Point_new(o[1], o[2], o[3]),
                                         Vector_new(d[1], d[2], d[3]))]
       \/ \E a \in CheckerChildren, b \in CheckerChildren,
             x \in CheckerCoordinates, y \in {-1, 0, One}, z \in {-One, 0, 1} :
             inp = [kind |-> "checker_at", self |-> Checker(a, b),
                    point |-> Point_new(x, y, z)]

CallClamp ==
    /\ pc = "call" /\ inp.kind = "clamp"
    /\ out' = clamp_and_scale_color_value(inp.c)
    /\ pc' = "done"
    /\ UNCHANGED <<world, camera, image, writes, px, py, stack, casts, calls, inp,
                   workers, file>>

CallMul ==
    /\ pc = "call" /\ inp.kind = "mul"
    /\ out' = mul(inp.a, inp.b)
    /\ pc' = "done"
    /\ UNCHANGED <<world, camera, image, writes, px, py, stack, casts, calls, inp,
                   workers, file>>

CallRayNew ==
    /\ pc = "call" /\ inp.kind = "ray_new"
    /\ out' = Ray_new(inp.origin, inp.direction)
    /\ pc' = "done"
    /\ UNCHANGED <<world, camera, image, writes, px, py, stack, casts, calls, inp,
                   workers, file>>

CallIsInvertible ==
    /\ pc = "call" /\ inp.kind = "is_invertible"
    /\ out' = Returned(is_invertible(inp.m))
    /\ pc' = "done"
    /\ UNCHANGED <<world, camera, image, writes, px, py, stack, casts, calls, inp,
                   workers, file>>

CallInverse ==
    /\ pc = "call" /\ inp.kind = "inverse"
    /\ out' = Matrix_inverse(inp.m)
    /\ pc' = "done"
    /\ UNCHANGED <<world, camera, image, writes, px, py, stack, casts, calls, inp,
                   workers, file>>

\* a == b and b == a
CallEq ==
    /\ pc = "call" /\ inp.kind = "eq"
    /\ out' = [ab |-> eq(inp.a, inp.b), ba |-> eq(inp.b, inp.a)]
    /\ pc' = "done"
    /\ UNCHANGED <<world, camera, image, writes, px, py, stack, casts, calls, inp,
                   workers, file>>

\* C = A * &B and B.inverse()
CallProductInverse ==
    /\ pc = "call" /\ inp.kind = "product_inverse"
    /\ out' = [product |-> mul(inp.a, inp.b), inverse |-> Matrix_inverse(inp.b)]
    /\ pc' = "done"
    /\ UNCHANGED <<world, camera, image, writes, px, py, stack, casts, calls, inp,
                   workers, file>>

\* the operators of tuples.rs on the points and vectors with coordinates p, q
CallTupleOps ==
    /\ pc = "call" /\ inp.kind = "tuple_ops"
    /\ LET p1 == Point_new(inp.p[1], inp.p[2], inp.p[3])
           p2 == Point_new(inp.q[1], inp.q[2], inp.q[3])
           v1 == Vector_new(inp.p[1], inp.p[2], inp.p[3])
           v2 == Vector_new(inp.q[1], inp.q[2], inp.q[3])
       IN  out' = [point_sub_point |-> sub(p1, p2),
                   point_add_vector |-> add(p1, v2),
                   point_sub_vector |-> sub(p1, v2),
                   vector_add_vector |-> add(v1, v2),
                   vector_sub_vector |-> sub(v1, v2),
                   neg_vector |-> neg(v1),
                   vector_mul_scalar |-> Vector_mul(v1, inp.scalar),
                   vector_div_scalar |-> Vector_div(v1, inp.scalar),
                   cross |-> cross(v1, v2)]
    /\ pc' = "done"
    /\ UNCHANGED <<world, camera, image, writes, px, py, stack, casts, calls, inp,
                   workers, file>>

\* the two instances objects[1] and objects[2] are compared, and an
\* intersection with each of them
CallEquals ==
    /\ pc = "call" /\ inp.kind = "equals"
    /\ out' = [shapes |-> Shape_equals(inp.objects[1], inp.objects[2]),
               intersections |-> Intersection_equals(inp.objects,
                                    Intersection(inp.t1, 1), Intersection(inp.t2, 2))]
    /\ pc' = "done"
    /\ UNCHANGED <<world, camera, image, writes, px, py, stack, casts, calls, inp,
                   workers, file>>

CallSphereLocalIntersect ==
    /\ pc = "call" /\ inp.kind = "sphere_local_intersect"
    /\ out' = Sphere_local_intersect(inp.self, inp.local_ray)
    /\ pc' = "done"
    /\ UNCHANGED <<world, camera, image, writes, px, py, stack, casts, calls, inp,
                   workers, file>>

CallCheckerAt ==
    /\ pc = "call" /\ inp.kind = "checker_at"
    /\ out' = Checker_at(inp.self, inp.point)
    /\ pc' = "done"
    /\ UNCHANGED <<world, camera, image, writes, px, py, stack, casts, calls, inp,
                   workers, file>>

NextCalls ==
    \/ CallClamp
    \/ CallMul
    \/ CallRayNew
    \/ CallIsInvertible
    \/ CallInverse
    \/ CallEq
    \/ CallProductInverse
    \/ CallTupleOps
    \/ CallEquals
    \/ CallSphereLocalIntersect
    \/ CallCheckerAt

SpecCalls == InitCalls /\ [][NextCalls]_vars

\* ---- canvas.rs: the PPM serializer ----------------------------------------
\* A String is the sequence of its characters.
NL == "\n"

SP == " "

DigitChars == <<"0", "1", "2", "3", "4", "5", "6", "7", "8", "9">>

\* format!("{}", n) of an unsigned integer
RECURSIVE format_int(_)
format_int(n) ==
    IF n < 10 THEN <<DigitChars[n + 1]>>
    ELSE Append(format_int(n \div 10), DigitChars[(n % 10) + 1])

\* String::pop: drops the last character, if there is one
pop(body) == IF Len(body) = 0 THEN body ELSE SubSeq(body, 1, Len(body) - 1)

with_filled_color(width, height, color) ==
    [width |-> width, height |-> height,
     color_grid |-> [y \in 1..height |-> [x \in 1..width |-> color]]]

construct_ppm_header(self) ==
    <<"P", "3", NL>> \o format_int(self.width) \o <<SP>> \o format_int(self.height)
        \o <<NL>> \o format_int(MAX_COLOR_VALUE)

\* format!("{} {} {} ", ..) of the three quantized components
color_value_string(color) ==
    format_int(clamp_and_scale_color_value(color[1])) \o <<SP>>
        \o format_int(clamp_and_scale_color_value(color[2])) \o <<SP>>
        \o format_int(clamp_and_scale_color_value(color[3])) \o <<SP>>

wrap_threshold == 58

wraps_at_limit(len, last_newline_idx, i, row_len) ==
    len - last_newline_idx > 70 /\ i # row_len - 1

\* the condition under which the line is broken after pixel i of its row
wraps(len, last_newline_idx, i, row_len) ==
    len - last_newline_idx > wrap_threshold /\ i # row_len - 1

\* The loops' state is the text so far, the index of its last line end (0 at
\* the start), the row y and the pixel i of the row that come next.
\* body.pop(); body += "\n"; last_newline_idx = body.len() - 1
break_line(st) ==
    LET broken == Append(pop(st.body), NL)
    IN  [st EXCEPT !.body = broken, !.last_newline_idx = Len(broken) - 1]

\* the body of the inner loop for pixel i (from 0) of a row
append_pixel(st, row) ==
    LET appended == [st EXCEPT !.body = st.body \o color_value_string(row[st.i + 1])]
        next == IF wraps(Len(appended.body), st.last_newline_idx, st.i, Len(row))
                THEN break_line(appended)
                ELSE appended
    IN  [next EXCEPT !.i = st.i + 1]

RECURSIVE append_row(_, _)
append_row(st, row) ==
    IF st.i >= Len(row) THEN st ELSE append_row(append_pixel(st, row), row)

end_row_keeps_line(st) == [st EXCEPT !.y = st.y + 1]

\* the statements after the inner loop
end_row(st) == [break_line(st) EXCEPT !.y = st.y + 1]

RECURSIVE append_rows(_, _)
append_rows(st, color_grid) ==
    IF st.y >= Len(color_grid) THEN st
    ELSE append_rows(end_row(append_row([st EXCEPT !.i = 0], color_grid[st.y + 1])),
                     color_grid)

construct_ppm_body(self) ==
    append_rows([body |-> <<>>, last_newline_idx |-> 0, y |-> 0, i |-> 0],
                self.color_grid).body

construct_ppm_with_blank_line(self) ==
    construct_ppm_header(self) \o <<NL, NL>> \o construct_ppm_body(self)

construct_ppm(self) ==
    construct_ppm_header(self) \o <<NL>> \o construct_ppm_body(self)

\* ---- a canvas is filled, written to and serialized -------------------------
\* colors whose pixels take 6, 10 and 12 characters
PpmColors ==
    {Color(0, 0, 0),
     Color(ComponentOne + 1, ComponentOne, -1),
     Color(ComponentOne, ComponentOne, ComponentOne - 1)}

InitPpm ==
    /\ world = NoWorld
    /\ camera = NoCamera
    /\ \E w \in 0..MaxW, h \in 0..MaxRows, c \in PpmColors :
          image = with_filled_color(w, h, c)
    /\ writes = <<>>
    /\ px = 0 /\ py = 0
    /\ pc = "canvas"
    /\ stack = <<>>
    /\ casts = 0 /\ calls = 0
    /\ inp = [kind |-> "ppm", palette |-> PpmColors, max_writes |-> MaxWrites]
    /\ out = black
    /\ workers = {} /\ file = None

\* a caller writes a pixel inside the canvas
WritePixel ==
    /\ pc = "canvas" /\ Len(writes) < inp.max_writes
    /\ \E x \in 0..(image.width - 1), y \in 0..(image.height - 1), c \in inp.palette :
          /\ image' = write_pixel(image, x, y, c)
          /\ writes' = Append(writes, <<x, y, c>>)
    /\ UNCHANGED <<world, camera, px, py, pc, stack, casts, calls, inp, out,
                   workers, file>>

\* a caller serializes the canvas
ConstructPpm ==
    /\ pc = "canvas" /\ inp.kind = "ppm"
    /\ out' = [header |-> construct_ppm_header(image),
               body |-> construct_ppm_body(image),
               ppm |-> construct_ppm(image)]
    /\ pc' = "done"
    /\ UNCHANGED <<world, camera, image, writes, px, py, stack, casts, calls, inp,
                   workers, file>>

NextPpm ==
    \/ WritePixel
    \/ ConstructPpm

SpecPpm == InitPpm /\ [][NextPpm]_vars

\* ---- a new canvas is written to ---------------------------------------------
InitCanvas ==
    /\ world = NoWorld
    /\ camera = NoCamera
    /\ \E w \in 0..MaxH, h \in 0..MaxV :
          /\ image = Canvas(w, h)
          /\ inp = [kind |-> "canvas", palette |-> {black, 1, 2},
                    max_writes |-> MaxCanvasWrites, width |-> w, height |-> h]
    /\ writes = <<>>
    /\ px = 0 /\ py = 0
    /\ pc = "canvas"
    /\ stack = <<>>
    /\ casts = 0 /\ calls = 0
    /\ out = black
    /\ workers = {} /\ file = None

NextCanvas == \/ WritePixel

SpecCanvas == InitCanvas /\ [][NextCanvas]_vars

\* ---- canvas.rs: to_ppm -------------------------------------------------------
Ok == [kind |-> "Ok"]

Err(e) == [kind |-> "Err", error |-> e]

\* what the target path may hold before the call: nothing, or some other file
OldFiles == {None, Some(<<"o", "l", "d">>)}

InitToPpm ==
    /\ world = NoWorld
    /\ camera = NoCamera
    /\ \E w \in 0..MaxH, h \in 0..MaxV, c \in PpmColors :
          image = with_filled_color(w, h, c)
    /\ writes = <<>>
    /\ px = 0 /\ py = 0
    /\ pc = "to_ppm"
    /\ stack = <<>>
    /\ casts = 0 /\ calls = 0
    /\ file \in OldFiles
    /\ inp = [kind |-> "to_ppm", before |-> file]
    /\ out = black
    /\ workers = {}

\* File::create(path)? returns the error to the caller
CreateFails ==
    /\ pc = "to_ppm"
    /\ out' = Err("create")
    /\ pc' = "done"
    /\ UNCHANGED <<world, camera, image, writes, px, py, stack, casts, calls, inp,
                   workers, file>>

\* File::create(path) creates the file, or truncates the one that is there
CreateSucceeds ==
    /\ pc = "to_ppm"
    /\ file' = Some(<<>>)
    /\ pc' = "write"
    /\ UNCHANGED <<world, camera, image, writes, px, py, stack, casts, calls, inp,
                   out, workers>>

\* write! hands the text to write_all, which writes it in pieces
WriteSome ==
    /\ pc = "write"
    /\ LET text == construct_ppm(image)
           written == Len(file[1])
       IN  \E n \in 1..(Len(text) - written) :
              file' = Some(SubSeq(text, 1, written + n))
    /\ UNCHANGED <<world, camera, image, writes, px, py, pc, stack, casts, calls,
                   inp, out, workers>>

\* a write of the rest fails, and write!(..)? returns the error to the caller
WriteFails ==
    /\ pc = "write"
    /\ Len(file[1]) < Len(construct_ppm(image))
    /\ out' = Err("write")
    /\ pc' = "done"
    /\ UNCHANGED <<world, camera, image, writes, px, py, stack, casts, calls, inp,
                   workers, file>>

\* Ok(())
ToPpmReturns ==
    /\ pc = "write"
    /\ Len(file[1]) = Len(construct_ppm(image))
    /\ out' = Ok
    /\ pc' = "done"
    /\ UNCHANGED <<world, camera, image, writes, px, py, stack, casts, calls, inp,
                   workers, file>>

NextToPpm ==
    \/ CreateFails
    \/ CreateSucceeds
    \/ WriteSome
    \/ WriteFails
    \/ ToPpmReturns

SpecToPpm == InitToPpm /\ [][NextToPpm]_vars

\* ---- experiments/projectile.rs ------------------------------------------------
\* Positions and velocities are counted in steps of 1/Unit of a pixel.  The
\* locals of tick_until_fallen (proj, height) are its frame on the stack;
\* writes keeps every write_pixel call the loop makes, the failing ones too.
\* Gravity pulls down in every run, so that every run of the loop ends.
Projectile(p, v) == [position |-> p, velocity |-> v]

Environment(gravity, wind) == [gravity |-> gravity, wind |-> wind]

tick(env, proj) ==
    Projectile(add(proj.position, proj.velocity),
               add(add(proj.velocity, env.gravity), env.wind))

\* f64 as usize: the fraction is dropped and a negative number gives 0
as_usize(n) == IF n <= 0 THEN 0 ELSE n \div Unit

\* usize - usize in a build without overflow checks; the wrapped difference
\* is above every canvas height whatever the width of usize, 30 bits here
wrapping_sub(a, b) == (a - b) % (2 ^ 30)

\* the arguments of the write_pixel call of the loop body
pixel_x(proj) == as_usize(proj.position[1])

pixel_y(canvas, proj) == canvas.height - as_usize(proj.position[2])

\* self.color_grid[y][x] is an index inside both vectors
in_grid(self, x, y) == y < self.height /\ x < self.width

ticked == tick(inp.env, top.proj)

InitProjectile ==
    /\ world = NoWorld
    /\ camera = NoCamera
    /\ \E w \in 1..MaxSide, h \in 1..MaxSide : image = Canvas(w, h)
    /\ writes = <<>>
    /\ px = 0 /\ py = 0
    /\ pc = "tick_until_fallen"
    /\ \E y \in {0, Unit \div 2, Unit, 2 * Unit},
          vx \in {0, Unit \div 2, Unit}, vy \in {-Unit, 0, Unit, 2 * Unit},
          g \in {-Unit, -(Unit \div 2)}, wind \in {-1, 0} :
          /\ inp = [kind |-> "tick_until_fallen",
                    env |-> Environment(Vector_new(0, g, 0), Vector_new(wind, 0, 0)),
                    proj |-> Projectile(Point_new(0, y, 0), Vector_new(vx, vy, 0))]
          /\ stack = <<[proj |-> inp.proj, height |-> y]>>
    /\ casts = 0 /\ calls = 0
    /\ out = black
    /\ workers = {} /\ file = None

\* while height > 0.0: tick, write_pixel inside the grid, height = position.1
TickWritesPixel ==
    /\ pc = "tick_until_fallen" /\ top.height > 0
    /\ as_usize(ticked.position[2]) <= image.height
    /\ in_grid(image, pixel_x(ticked), pixel_y(image, ticked))
    /\ image' = write_pixel(image, pixel_x(ticked), pixel_y(image, ticked), 1)
    /\ writes' = Append(writes, <<pixel_x(ticked), pixel_y(image, ticked), 1>>)
    /\ stack' = <<[proj |-> ticked, height |-> ticked.position[2]]>>
    /\ UNCHANGED <<world, camera, px, py, pc, casts, calls, inp, out, workers, file>>

\* while height > 0.0: tick, write_pixel indexes outside the grid and panics
TickWritePanics ==
    /\ pc = "tick_until_fallen" /\ top.height > 0
    /\ as_usize(ticked.position[2]) <= image.height
    /\ ~in_grid(image, pixel_x(ticked), pixel_y(image, ticked))
    /\ writes' = Append(writes, <<pixel_x(ticked), pixel_y(image, ticked), 1>>)
    /\ stack' = <<[top EXCEPT !.proj = ticked]>>
    /\ pc' = "panic"
    /\ UNCHANGED <<world, camera, image, px, py, casts, calls, inp, out, workers, file>>

\* while height > 0.0: tick, canvas.height - position.1 as usize goes below
\* 0: a panic at the subtraction, or a wrapped y and a panic in write_pixel
TickSubtractOverflows ==
    /\ pc = "tick_until_fallen" /\ top.height > 0
    /\ as_usize(ticked.position[2]) > image.height
    /\ \/ writes' = writes
       \/ writes' = Append(writes,
                       <<pixel_x(ticked),
                         wrapping_sub(image.height, as_usize(ticked.position[2])), 1>>)
    /\ stack' = <<[top EXCEPT !.proj = ticked]>>
    /\ pc' = "panic"
    /\ UNCHANGED <<world, camera, image, px, py, casts, calls, inp, out, workers, file>>

\* the loop condition height > 0.0 is false: tick_until_fallen returns
Fallen ==
    /\ pc = "tick_until_fallen" /\ ~(top.height > 0)
    /\ pc' = "done"
    /\ UNCHANGED <<world, camera, image, writes, px, py, stack, casts, calls, inp, out,
                   workers, file>>

NextProjectile ==
    \/ TickWritesPixel
    \/ TickWritePanics
    \/ TickSubtractOverflows
    \/ Fallen

SpecProjectile == InitProjectile /\ [][NextProjectile]_vars

\* ---- properties -----------------------------------------------------------
Count(seq, x) == Cardinality({k \in 1..Len(seq) : seq[k] = x})

Range(seq) == {seq[k] : k \in 1..Len(seq)}

\* C1: hit(xs) is an intersection of xs with t >= 0 that no other
\* intersection of xs with t >= 0 undercuts (t = 0 counts as a hit), and it
\* is none exactly when xs has no intersection with t >= 0.
HitIsLowestNonNegative ==
    (pc = "done" /\ inp.kind = "hit") =>
        /\ (out = None) <=> (\A k \in 1..Len(inp.xs) : inp.xs[k].t < 0)
        /\ out # None =>
              /\ out[1] \in Range(inp.xs)
              /\ out[1].t >= 0
              /\ \A k \in 1..Len(inp.xs) : inp.xs[k].t >= 0 => out[1].t <= inp.xs[k].t

HitAtZeroWitness ==
    /\ pc = "done" /\ inp.kind = "hit"
    /\ out # None /\ out[1].t = 0
    /\ \E k \in 1..Len(inp.xs) : inp.xs[k].t < 0
    /\ \E k \in 1..Len(inp.xs) : inp.xs[k].t > 0

\* the first position of xs that holds an intersection with the given t
FirstAt(xs, t) == CHOOSE k \in 1..Len(xs) :
                      xs[k].t = t /\ \A j \in 1..(k - 1) : xs[j].t # t

\* the shapes of the world whose own intersections with r include the given t
ShapesAt(w, r, t) ==
    {k \in 1..Len(w.objects) :
        \E i \in Range(shape_intersect(w.objects[k], k, r)) : i.t = t}

\* C2: among several intersections with the smallest non-negative t, hit
\* returns the first of its input list; the hit color_at takes from
\* World::intersect on such a tie belongs to the earliest shape of
\* world.objects.
HitTieGoesToFirst ==
    /\ (pc = "done" /\ inp.kind = "hit" /\ out # None) =>
          out[1] = inp.xs[FirstAt(inp.xs, out[1].t)]
    /\ (pc = "done" /\ inp.kind = "color_at_hit" /\ out # None) =>
          \A k \in ShapesAt(world, inp.r, out[1].t) : out[1].object <= k

HitTieWitness ==
    /\ pc = "done" /\ inp.kind = "color_at_hit" /\ out # None
    /\ \E k \in ShapesAt(world, inp.r, out[1].t) : k > out[1].object
    /\ \E i \in Range(intersect(world, inp.r)) : i.t < out[1].t

IsSorted(xs) == \A j, k \in 1..Len(xs) : j < k => xs[j].t <= xs[k].t

\* C3: World::intersect returns a permutation of the concatenation of the
\* shapes' own intersections, in ascending order of t.
IntersectIsSortedPermutation ==
    (pc = "done" /\ inp.kind = "intersect") =>
        LET all == concat_intersections(world.objects, 1, inp.r)
        IN  /\ Len(out) = Len(all)
            /\ \A i \in Range(all) \cup Range(out) : Count(out, i) = Count(all, i)
            /\ IsSorted(out)

IntersectReordersWitness ==
    /\ pc = "done" /\ inp.kind = "intersect"
    /\ Len(out) >= 3
    /\ out # concat_intersections(world.objects, 1, inp.r)
    /\ \E j \in 1..(Len(out) - 1) : out[j].t = out[j + 1].t

\* the intersections of the ray cast from point toward the light, unfiltered
TowardLight(w, point) ==
    concat_intersections(w.objects, 1,
        Ray(point, IF w.light.position > point THEN 1 ELSE -1))

\* C7: is_shadowed(point) is true exactly when the ray from point toward the
\* light has an intersection with 0 <= t < distance(point, light).
ShadowedIffBlockerBeforeLight ==
    (pc = "done" /\ inp.kind = "is_shadowed") =>
        (out <=> \E i \in Range(TowardLight(world, inp.point)) :
                    0 <= i.t /\ i.t < Abs(world.light.position - inp.point))

ShadowIgnoresBehindAndBeyondWitness ==
    /\ pc = "done" /\ inp.kind = "is_shadowed"
    /\ out = FALSE
    /\ \E i \in Range(TowardLight(world, inp.point)) : i.t < 0
    /\ \E i \in Range(TowardLight(world, inp.point)) :
          i.t = Abs(world.light.position - inp.point)

ColorAtTerminates == <>(pc = "done")

IsMirror(shape, p) ==
    /\ shape.kind = "plane" /\ shape.transformation = translation(p)
    /\ shape.material.reflective = 1

FacingMirrorsWitness ==
    /\ pc = "done" /\ inp.kind = "color_at"
    /\ Len(world.objects) = 2
    /\ IsMirror(world.objects[1], -Unit) /\ IsMirror(world.objects[2], Unit)
    /\ inp.r = Ray(0, 1)
    /\ inp.remaining = MAX_REFLECTION_DEPTH
    /\ casts = MAX_REFLECTION_DEPTH

\* C5: reflected_color returns black without casting a ray when the
\* remaining depth is 0 or the hit material's reflective is 0, and shade_hit at
\* depth 0 gives a reflective material the color of its non-reflective twin.
ReflectionStopsAtFloor ==
    [][(pc = "color_at" /\ top.stage = "reflected_color") =>
          /\ (top.remaining = 0 \/ material(world, top_comps).reflective = 0) =>
                /\ casts' = casts
                /\ calls' = calls
                /\ Len(stack') = Len(stack)
                /\ stack'[Len(stack)].stage = "ret"
                /\ stack'[Len(stack)].value =
                      lighting(material(world, top_comps), world.light, top_comps.point,
                               top_comps.eyev, top_comps.normalv,
                               is_shadowed(world, top_comps.over_point),
                               world.objects[top_comps.object])
          /\ shade_hit(world, top_comps, 0) =
                shade_hit(Dull(world, top_comps.object), top_comps, 0)]_vars

DepthFloorWitness ==
    /\ pc = "done" /\ inp.kind = "color_at"
    /\ inp.remaining = 0
    /\ hit(intersect(world, inp.r)) # None
    /\ world.objects[hit(intersect(world, inp.r))[1].object].material.reflective > 0
    /\ casts = 0 /\ out > black

\* C6: color_at returns black when the ray has no hit (no intersection at
\* all, or only intersections with negative t) and otherwise shade_hit of
\* the prepared computations of the hit.
ColorAtBlackWithoutHit ==
    (pc = "done" /\ inp.kind = "color_at") =>
        IF \A i \in Range(concat_intersections(world.objects, 1, inp.r)) : i.t < 0
        THEN out = black
        ELSE out = shade_hit(world,
                     prepare_computations(world, hit(intersect(world, inp.r))[1], inp.r),
                     inp.remaining)

AllBehindWitness ==
    /\ pc = "done" /\ inp.kind = "color_at"
    /\ out = black
    /\ Len(concat_intersections(world.objects, 1, inp.r)) >= 2
    /\ \A i \in Range(concat_intersections(world.objects, 1, inp.r)) : i.t < 0

\* the k-th pixel of the row-major order, k counted from 1
RowMajor(k) == <<(k - 1) % camera.hsize, (k - 1) \div camera.hsize>>

WorldReadOnly == [][world' = world]_vars

RenderedWithReflectionWitness ==
    /\ pc = "done"
    /\ Len(writes) >= 2
    /\ casts > 0
    /\ Len(world.objects) >= 2
    /\ \E k \in 1..Len(world.objects) : world.objects[k].material.reflective = 0

ClampScalesAndRounds ==
    (pc = "done" /\ inp.kind = "clamp") =>
        /\ out \in 0..255
        /\ inp.c < 0 => out = 0
        /\ inp.c > ComponentOne => out = 255
        /\ (0 <= inp.c /\ inp.c <= ComponentOne) =>
              /\ (2 * out - 1) * ComponentOne <= 2 * inp.c * 255
              /\ 2 * inp.c * 255 < (2 * out + 1) * ComponentOne
        /\ 2 * inp.c = ComponentOne => out = 128

HalfRoundsUpWitness ==
    /\ pc = "done" /\ inp.kind = "clamp"
    /\ 2 * inp.c = ComponentOne
    /\ out = 128

\* the positions of the line ends of a string
LineEnds(s) == {k \in 1..Len(s) : s[k] = NL}

\* the line that ends at position e of s, without its line end
LineAt(s, e) ==
    LET before == {k \in LineEnds(s) : k < e}
        start == IF before = {} THEN 1
                 ELSE (CHOOSE k \in before : \A j \in before : j <= k) + 1
    IN  SubSeq(s, start, e - 1)

\* C12: no line of the PPM body is longer than 70 characters, and the body
\* has no text after its last line end.
BodyLinesAtMost70 ==
    (pc = "done" /\ inp.kind = "ppm") =>
        /\ \A e \in LineEnds(out.body) : Len(LineAt(out.body, e)) <= 70
        /\ out.body # <<>> => out.body[Len(out.body)] = NL

LongestLineWitness ==
    /\ pc = "done" /\ inp.kind = "ppm"
    /\ \E e \in LineEnds(out.body) : Len(LineAt(out.body, e)) = 69
    /\ Cardinality(LineEnds(out.body)) > image.height

\* the number of pixels whose text ends at or before position n of s: every
\* component is followed by one space or line end
PixelsThrough(s, n) == Cardinality({k \in 1..n : s[k] \in {SP, NL}}) \div 3

\* a line of whole pixels: components separated by single spaces, three a pixel
WholePixels(l) ==
    /\ l[1] # SP /\ l[Len(l)] # SP
    /\ \A k \in 1..(Len(l) - 1) : ~(l[k] = SP /\ l[k + 1] = SP)
    /\ (Cardinality({k \in 1..Len(l) : l[k] = SP}) + 1) % 3 = 0

\* the text of the first n pixels of a canvas in row-major order
RECURSIVE PixelText(_, _)
PixelText(self, n) ==
    IF n = 0 THEN <<>>
    ELSE PixelText(self, n - 1)
            \o color_value_string(pixel_at(self, (n - 1) % self.width,
                                                 (n - 1) \div self.width))

\* C13: the body holds the pixels in row-major order, a line break falls only
\* between two pixels (never inside one), and the pixels of one line all
\* belong to one row of the canvas.
BreaksOnlyBetweenPixels ==
    (pc = "done" /\ inp.kind = "ppm" /\ image.width > 0) =>
        /\ [k \in 1..Len(out.body) |-> IF out.body[k] = NL THEN SP ELSE out.body[k]]
              = PixelText(image, image.width * image.height)
        /\ \A e \in LineEnds(out.body) :
              LET l == LineAt(out.body, e)
                  first == PixelsThrough(out.body, e - Len(l) - 1)
                  last == PixelsThrough(out.body, e) - 1
              IN  /\ l # <<>>
                  /\ WholePixels(l)
                  /\ first \div image.width = last \div image.width

WrappedRowsWitness ==
    /\ pc = "done" /\ inp.kind = "ppm"
    /\ image.width > 0 /\ image.height > 1
    /\ Cardinality(LineEnds(out.body)) > image.height
    /\ writes # <<>>

\* the text of the first three lines of a PPM file, with their line ends
HeaderLines(self) ==
    <<"P", "3", NL>> \o format_int(self.width) \o <<SP>> \o format_int(self.height)
        \o <<NL, "2", "5", "5", NL>>

\* C15 as stated: the header lines P3, "{width} {height}" and 255 are followed
\* by one blank line, and the body follows the blank line.
HeaderThenBlankLineThenBody ==
    (pc = "done" /\ inp.kind = "ppm") =>
        out.ppm = HeaderLines(image) \o <<NL>> \o out.body

\* C15: the PPM text is the header lines P3, "{width} {height}" and 255, each
\* ended by one line end, followed directly by the body.
HeaderThenBody ==
    (pc = "done" /\ inp.kind = "ppm") =>
        out.ppm = HeaderLines(image) \o out.body

HeaderThenPixelsWitness ==
    /\ pc = "done" /\ inp.kind = "ppm"
    /\ image.width > 0 /\ image.height > 0
    /\ out.ppm[Len(HeaderLines(image)) + 1] \notin {NL, SP}

\* the color of the last write_pixel call at (x, y), black if there was none
LastWritten(x, y) ==
    LET same == {k \in 1..Len(writes) : writes[k][1] = x /\ writes[k][2] = y}
    IN  IF same = {} THEN black
        ELSE writes[CHOOSE k \in same : \A j \in same : j <= k][3]

\* C17: a new canvas is black everywhere; after any in-bounds writes, pixel_at
\* returns the color last written at its coordinates (black if none was), so a
\* write changes no other pixel; width and height stay as constructed.
PixelAtReturnsLastWrite ==
    inp.kind = "canvas" =>
        /\ image.width = inp.width /\ image.height = inp.height
        /\ Len(image.color_grid) = inp.height
        /\ \A y \in 0..(inp.height - 1) :
              /\ Len(image.color_grid[y + 1]) = inp.width
              /\ \A x \in 0..(inp.width - 1) : pixel_at(image, x, y) = LastWritten(x, y)

OverwrittenPixelWitness ==
    /\ inp.kind = "canvas" /\ Len(writes) = 2
    /\ writes[1][1] = writes[2][1] /\ writes[1][2] = writes[2][2]
    /\ writes[1][3] # writes[2][3]
    /\ writes[1][1] # writes[1][2]
    /\ pixel_at(image, writes[2][1], writes[2][2]) = writes[2][3]

\* C16: when to_ppm fails, the caller gets the error and the target path holds
\* no partially written file: it holds what it held before the call, or the
\* whole PPM text.
FailureLeavesNoPartialFile ==
    (pc = "done" /\ inp.kind = "to_ppm") =>
        /\ out.kind = "Ok" => file = Some(construct_ppm(image))
        /\ out.kind = "Err" => file \in {inp.before, Some(construct_ppm(image))}

\* C18: multiplying a matrix A by a matrix B when the number of columns of A
\* differs from the number of rows of B panics and returns no matrix.
IncompatibleMulPanics ==
    (pc = "done" /\ inp.kind = "mul" /\ inp.a.cols # inp.b.rows) =>
        out.kind = "panic"

\* C19: Ray::new panics whenever the origin's w is not 1 or the direction's w
\* is not 0, and otherwise returns a ray that holds exactly the given origin
\* and direction.
RayNewChecksW ==
    (pc = "done" /\ inp.kind = "ray_new") =>
        IF inp.origin[4] # 1 \/ inp.direction[4] # 0 THEN out.kind = "panic"
        ELSE /\ out.kind = "return"
             /\ out.value.origin = inp.origin
             /\ out.value.direction = inp.direction

PointAsDirectionWitness ==
    /\ pc = "done" /\ inp.kind = "ray_new"
    /\ inp.origin[4] = 1 /\ inp.direction[4] = 1
    /\ out.kind = "panic"

\* the permutations of 1..n, for every size of matrix
PermutationsOf ==
    [n \in 1..(IF MaxDim > 4 THEN MaxDim ELSE 4) |->
        {p \in [1..n -> 1..n] : \A i, j \in 1..n : i # j => p[i] # p[j]}]

\* +1 for an even permutation, -1 for an odd one
Signature(p) ==
    LET n == Len(p)
        inversions == Cardinality({ij \in (1..n) \X (1..n) :
                                      ij[1] < ij[2] /\ p[ij[1]] > p[ij[2]]})
    IN  IF inversions % 2 = 0 THEN 1 ELSE -1

RECURSIVE DiagonalProduct(_, _, _)
DiagonalProduct(m, p, k) ==
    IF k = 0 THEN 1 ELSE DiagonalProduct(m, p, k - 1) * m.data[k][p[k]]

RECURSIVE SumOver(_, _)
SumOver(ps, m) ==
    IF ps = {} THEN 0
    ELSE LET p == CHOOSE q \in ps : TRUE
         IN  Signature(p) * DiagonalProduct(m, p, m.rows) + SumOver(ps \ {p}, m)

\* the determinant of a square matrix by the Leibniz formula
Det(m) == SumOver(PermutationsOf[m.rows], m)

\* C20: Matrix::inverse panics exactly when the determinant of the matrix is
\* 0, and then returns no matrix; is_invertible is true if and only if the
\* determinant is not 0.
InversePanicsIffSingular ==
    /\ (pc = "done" /\ inp.kind = "inverse") =>
          /\ out.kind = "panic" <=> Det(inp.m) = 0
          /\ out.kind = "return" <=> Det(inp.m) # 0
          /\ determinant(inp.m) = Det(inp.m)
    /\ (pc = "done" /\ inp.kind = "is_invertible") =>
          (out.value <=> Det(inp.m) # 0)

\* the same for matrices of three or more rows
InversePanicsIffSingularFrom3 ==
    inp.kind \in {"inverse", "is_invertible"} =>
        (inp.m.rows >= 3 => InversePanicsIffSingular)

\* the two matrices have the same dimensions and no entry differs by more
\* than EPSILON in absolute value
WithinEpsilon(a, b) ==
    /\ a.rows = b.rows /\ a.cols = b.cols
    /\ \A i \in 1..a.rows : \A j \in 1..a.cols :
          Abs(a.data[i][j] - b.data[i][j]) <= EPSILON

\* C21: A == B holds exactly when A and B have the same dimensions and every
\* pair of corresponding entries differs by at most EPSILON in absolute
\* value, and A == B holds exactly when B == A does.
MatrixEqIsSymmetricTolerance ==
    (pc = "done" /\ inp.kind = "eq") =>
        /\ out.ab <=> WithinEpsilon(inp.a, inp.b)
        /\ out.ab <=> out.ba

\* the numerators of a matrix of quotients
Numerators(m) ==
    from_vec([i \in 1..m.rows |-> [j \in 1..m.cols |-> m.data[i][j][1]]])

\* the matrix with every entry multiplied by k
Scaled(m, k) ==
    from_vec([i \in 1..m.rows |-> [j \in 1..m.cols |-> k * m.data[i][j]]])

\* C22: for every invertible 4x4 matrix B, inverse(B) is the transpose of
\* the cofactor matrix of B divided by det(B); B * inverse(B) is the identity
\* and (A * B) * inverse(B) is A. The quotients share the denominator det(B),
\* so the products are compared after multiplying both sides by det(B).
InverseIsTransposedCofactorsOverDet ==
    (pc = "done" /\ inp.kind = "product_inverse" /\ Det(inp.b) # 0) =>
        /\ out.inverse.kind = "return"
        /\ out.product.kind = "return"
        /\ LET inv == out.inverse.value
               det == Det(inp.b)
           IN  /\ inv.rows = 4 /\ inv.cols = 4
               /\ \A i \in 1..4 : \A j \in 1..4 :
                     inv.data[i][j] = Quotient(cofactor(inp.b, j - 1, i - 1), det)
               /\ mul(inp.b, Numerators(inv)) = Returned(Scaled(identity, det))
               /\ mul(out.product.value, Numerators(inv)) = Returned(Scaled(inp.a, det))

ProductInverseWitness ==
    /\ pc = "done" /\ inp.kind = "product_inverse"
    /\ inp.a # identity
    /\ Det(inp.b) < 0
    /\ out.inverse.kind = "return" /\ out.product.kind = "return"
    /\ \E i \in 1..3 : \E j \in 1..3 : inp.b.data[i][j] # inp.b.data[j][i]

\* C23: point - point has w = 0; point + vector and point - vector have
\* w = 1; vector + vector and vector - vector have w = 0; negating a vector
\* and multiplying or dividing it by a scalar keep w = 0; cross yields w = 0.
TupleOpsKeepW ==
    (pc = "done" /\ inp.kind = "tuple_ops") =>
        /\ out.point_sub_point[4] = 0
        /\ out.point_add_vector[4] = 1
        /\ out.point_sub_vector[4] = 1
        /\ out.vector_add_vector[4] = 0
        /\ out.vector_sub_vector[4] = 0
        /\ out.neg_vector[4] = 0
        /\ out.vector_mul_scalar[4] = 0
        /\ out.vector_div_scalar[4] = 0
        /\ out.cross[4] = 0

TupleOpsWitness ==
    /\ pc = "done" /\ inp.kind = "tuple_ops"
    /\ inp.p = <<2, -1, 0>> /\ inp.q = <<-1, 2, 2>>
    /\ out.point_sub_point = <<3, -3, -2, 0>>
    /\ out.point_add_vector = <<1, 1, 2, 1>>
    /\ out.cross = <<-2, -4, 3, 0>>

\* C24: two distinct sphere instances with identical transformation and
\* material are not reported as the same shape by Shape::equals, nor are
\* intersections with them reported equal by Intersection::equals.
DistinctSpheresAreDistinct ==
    (/\ pc = "done" /\ inp.kind = "equals"
     /\ inp.objects[1].kind = "sphere" /\ inp.objects[2].kind = "sphere"
     /\ inp.objects[1].transformation = inp.objects[2].transformation
     /\ inp.objects[1].material = inp.objects[2].material) =>
        /\ ~out.shapes
        /\ ~out.intersections

\* the squared distance of the line of a ray from the centre of the unit
\* sphere, times the squared length of the direction
SquaredMoment(ray) ==
    LET m == cross(ray.origin, ray.direction)
    IN  m[1] * m[1] + m[2] * m[2] + m[3] * m[3]

SquaredLength(v) == v[1] * v[1] + v[2] * v[2] + v[3] * v[3]

\* C25: Sphere::local_intersect returns no intersection when the line of the
\* ray misses the sphere and otherwise exactly two intersections with
\* t1 <= t2, both referring to the sphere itself; a tangent ray yields two
\* intersections with equal t, never one.
SphereYieldsNoneOrTwo ==
    (pc = "done" /\ inp.kind = "sphere_local_intersect") =>
        LET moment == SquaredMoment(inp.local_ray)
            length == SquaredLength(inp.local_ray.direction)
        IN  IF moment > length THEN out = <<>>
            ELSE /\ Len(out) = 2
                 /\ out[1].object = inp.self /\ out[2].object = inp.self
                 /\ out[1].t[2] = out[2].t[2] /\ out[1].t[2] > 0
                 /\ out[1].t[1] <= out[2].t[1]
                 /\ moment = length => out[1].t = out[2].t

TangentRayWitness ==
    /\ pc = "done" /\ inp.kind = "sphere_local_intersect"
    /\ inp.local_ray = Ray(Point_new(0, 1, -2), Vector_new(0, 0, 1))
    /\ out = <<Intersection(Quotient(4, 2), inp.self), Intersection(Quotient(4, 2), inp.self)>>

\* C26: prepare_computations sets inside exactly when the normal of the shape
\* at the hit point has a negative dot product with the eye vector and
\* negates the normal in that case, so that normalv . eyev >= 0 in every
\* Computations record; reflectv and over_point are computed from that normal.
PreparedNormalFacesEye ==
    \A k \in 1..Len(stack) :
        stack[k].comps # None =>
            LET comps == stack[k].comps[1]
                ray == stack[k].ray
                normal == normal_at(world.objects[comps.object], comps.point)
            IN  /\ comps.point = position(ray, comps.t)
                /\ comps.eyev = -ray.direction
                /\ comps.inside <=> dot(normal, comps.eyev) < 0
                /\ comps.normalv = IF dot(normal, comps.eyev) < 0 THEN -normal ELSE normal
                /\ dot(comps.normalv, comps.eyev) >= 0
                /\ comps.reflectv = reflect(ray.direction, comps.normalv)
                /\ comps.over_point = comps.point + comps.normalv * EPSILON

InsideHitWitness ==
    /\ stack # <<>>
    /\ stack[Len(stack)].comps # None
    /\ stack[Len(stack)].comps[1].inside
    /\ world.objects[stack[Len(stack)].comps[1].object].kind = "sphere"

\* C27: every secondary ray starts at over_point = point + normalv * EPSILON
\* and never at the hit point: the shadow test of shade_hit runs from
\* comps.over_point, the reflection ray of reflected_color has the origin
\* comps.over_point, and the lighting is evaluated at comps.point.
SecondaryRaysStartAtOverPoint ==
    \A k \in 1..Len(stack) :
        LET frame == stack[k]
            comps == frame.comps[1]
        IN  /\ frame.comps # None =>
                /\ comps.over_point = comps.point + comps.normalv * EPSILON
                /\ comps.over_point # comps.point
            /\ frame.stage = "shadow_sort" =>
                frame.shadow_xs =
                    concat_intersections(world.objects, 1,
                        Ray(comps.over_point,
                            normalize(world.light.position - comps.over_point)))
            /\ (frame.stage \in {"reflected_color", "wait", "ret"} /\ frame.comps # None) =>
                frame.shadow_xs =
                    intersect(world,
                        Ray(comps.over_point,
                            normalize(world.light.position - comps.over_point)))
            /\ (frame.stage \in {"wait", "ret"} /\ frame.comps # None) =>
                frame.surface =
                    lighting(material(world, comps), world.light, comps.point,
                             comps.eyev, comps.normalv,
                             is_shadowed(world, comps.over_point),
                             world.objects[comps.object])
            /\ k > 1 =>
                /\ frame.ray.origin = stack[k - 1].comps[1].over_point
                /\ frame.ray.origin # stack[k - 1].comps[1].point
                /\ frame.ray.direction = stack[k - 1].comps[1].reflectv

\* a reflection ray is under way from a lit surface that a shadow ray cast
\* from the hit point itself would find in the shadow of that very surface
OverPointAvoidsAcneWitness ==
    /\ Len(stack) >= 2
    /\ stack[1].stage = "wait"
    /\ ~is_shadowed(world, stack[1].comps[1].over_point)
    /\ is_shadowed(world, stack[1].comps[1].point)
    /\ stack[2].ray.origin = stack[1].comps[1].over_point
    /\ stack[1].surface > black

\* C29: in the chain of calls started by color_at(ray, d) each reflection
\* passes on a remaining depth exactly one smaller, the remaining depth never
\* goes below 0, and at most d + 1 color_at calls and at most d reflection
\* rays are made for the primary ray.
DepthDecreasesByOne ==
    inp.kind = "color_at" =>
        /\ \A k \in 1..Len(stack) :
              /\ stack[k].remaining \in Nat
              /\ k = 1 => stack[k].remaining = inp.remaining
              /\ k > 1 => /\ stack[k - 1].remaining > 0
                          /\ stack[k].remaining = stack[k - 1].remaining - 1
        /\ Len(stack) <= inp.remaining + 1
        /\ calls <= inp.remaining + 1
        /\ casts <= inp.remaining
        /\ calls = casts + 1

WholeDepthUsedWitness ==
    /\ inp.kind = "color_at" /\ pc = "color_at"
    /\ inp.remaining >= 2
    /\ Len(stack) = inp.remaining + 1
    /\ stack[Len(stack)].remaining = 0
    /\ stack[Len(stack)].stage = "ret"
    /\ stack[Len(stack)].comps # None
    /\ material(world, stack[Len(stack)].comps[1]).reflective > 0
    /\ calls = inp.remaining + 1 /\ casts = inp.remaining

\* the whole number k with k <= n / One < k + 1
FloorOf(n) == CHOOSE k \in -(Abs(n) + 1)..(Abs(n) + 1) : k * One <= n /\ n < (k + 1) * One

\* a coordinate of absolute value below EPSILON counts as 0
Snapped(n) == IF -(EPSILON * Steps) < n /\ n < EPSILON * Steps THEN 0 ELSE n

\* what the child chosen by an even or odd sum gives at the point moved back
\* by the child's own translation
ChildSample(self, even, point) ==
    LET child == IF even THEN self.a ELSE self.b
        moved == <<point[1] - child.transformation[1], point[2] - child.transformation[2],
                   point[3] - child.transformation[3]>>
    IN  IF child.kind = "solid" THEN child.color
        ELSE IF FloorOf(moved[1]) % 2 = 0 THEN child.a.color ELSE child.b.color

ProjectileWritesInsideCanvas ==
    inp.kind = "tick_until_fallen" =>
        /\ pc # "panic"
        /\ \A k \in 1..Len(writes) :
              /\ 0 <= writes[k][1] /\ writes[k][1] < image.width
              /\ 0 <= writes[k][2] /\ writes[k][2] < image.height

====
